---- MODULE Spec2Model ----
(***************************************************************************)
(* PrimeVista (src/app.py): a Flask site with four SQLite tables, an       *)
(* upload directory and an image pipeline (save_and_crop_image).           *)
(*                                                                         *)
(* Four specifications share the module's variables:                       *)
(*   SpecImg   the cover-fit / center-crop arithmetic of                   *)
(*             save_and_crop_image, with Python's float semantics          *)
(*             (IEEE-754 binary64, round to nearest even) carried out on   *)
(*             bit sequences;                                              *)
(*   SpecSave  one call of save_and_crop_image on an arbitrary filename;   *)
(*   Spec      the HTTP surface, one request handled at a time;            *)
(*   SpecConc  two delete requests for the same id, interleaved statement  *)
(*             by statement.                                               *)
(***************************************************************************)
EXTENDS Integers, Naturals, Sequences, FiniteSets, TLC

VARIABLES
    projects,       \* table projects: set of rows
    clients,        \* table clients: set of rows
    contacts,       \* table contacts: set of rows
    subscriptions,  \* table subscriptions: set of rows
    seq,            \* sqlite_sequence: table name -> last id handed out
    files,          \* names of the files present in UPLOAD_FOLDER
    uuids,          \* number of uuid4() values drawn so far
    flashed,        \* messages flashed by the request handled last
    req,            \* the request handled last, with what it observed
    img,            \* SpecImg: source size and target of the image in hand
    box,            \* SpecImg: scaled size and crop box computed for img
    upload,         \* SpecSave: the file_storage passed to the call
    ret,            \* SpecSave: what the call returned and how it went
    dpc,            \* SpecConc: position of each delete request
    drow,           \* SpecConc: the row each delete request selected
    dlog            \* SpecConc: what each delete request did, in order

vars == <<projects, clients, contacts, subscriptions, seq, files, uuids,
          flashed, req, img, box, upload, ret, dpc, drow, dlog>>

httpVars == <<projects, clients, contacts, subscriptions, seq, files, uuids,
              flashed, req>>
imgVars  == <<img, box>>
saveVars == <<upload, ret>>
concVars == <<dpc, drow, dlog>>

(***************************************************************************)
(* Python floats.  A positive binary64 value is [e, hi, mid, lo]: the      *)
(* 53-bit significand is hi * Limb^2 + mid * Limb + lo with hi of 17 bits  *)
(* (leading bit set) and mid, lo of 18 bits each; e is the exponent of the *)
(* leading bit, so the value is  significand * 2^(e - 52).  Every          *)
(* operation is exact on the limbs and rounds to nearest, ties to even.    *)
(***************************************************************************)
Limb  == 2^18
HiTop == 2^16

\* round to nearest, ties to even: the kept significand, the first dropped
\* bit and whether any lower dropped bit is set
RoundFloat(e, hi, mid, lo, guard, sticky) ==
    IF guard = 1 /\ (sticky \/ lo % 2 = 1)
    THEN IF lo + 1 < Limb
         THEN [e |-> e, hi |-> hi, mid |-> mid, lo |-> lo + 1]
         ELSE IF mid + 1 < Limb
         THEN [e |-> e, hi |-> hi, mid |-> mid + 1, lo |-> 0]
         ELSE IF hi + 1 < 2 * HiTop
         THEN [e |-> e, hi |-> hi + 1, mid |-> 0, lo |-> 0]
         ELSE [e |-> e + 1, hi |-> HiTop, mid |-> 0, lo |-> 0]
    ELSE [e |-> e, hi |-> hi, mid |-> mid, lo |-> lo]

\* the exponent of a/b is ExpUp - ExpDown: 2^k <= a/b < 2^(k+1)
ExpUp(a, b)   == CHOOSE k \in 0..30 : b * 2^k <= a /\ a < b * 2^(k + 1)
ExpDown(a, b) == CHOOSE k \in 0..30 :
                    a * 2^k >= b /\ (k = 0 \/ a * 2^(k - 1) < b)

\* a / b for integers a, b >= 1 (Python's true division): long division,
\* 16 + 18 + 18 quotient bits after the leading one, then the rounding
FDiv(a, b) ==
    LET up == IF a >= b THEN ExpUp(a, b) ELSE 0
        dn == IF a < b THEN ExpDown(a, b) ELSE 0
        aa == a * 2^dn
        bb == b * 2^up
        r0 == aa - bb
        q1 == (r0 * HiTop) \div bb
        r1 == (r0 * HiTop) % bb
        q2 == (r1 * Limb) \div bb
        r2 == (r1 * Limb) % bb
        q3 == (r2 * Limb) \div bb
        r3 == (r2 * Limb) % bb
        g  == IF 2 * r3 >= bb THEN 1 ELSE 0
    IN  RoundFloat(up - dn, HiTop + q1, q2, q3, g, 2 * r3 - g * bb # 0)

\* n * x for an integer n >= 1 and a float x (int * float): the exact
\* product of n and the significand, shifted back to 53 bits and rounded
FMulInt(n, x) ==
    LET t0 == x.lo * n
        t1 == x.mid * n + t0 \div Limb
        t2 == x.hi * n + t1 \div Limb
        p0 == t0 % Limb
        p1 == t1 % Limb
        s  == CHOOSE k \in 0..14 : HiTop * 2^k <= t2 /\ t2 < HiTop * 2^(k + 1)
        d  == 2^s
        u  == Limb \div d
        guard == IF s = 0 THEN 0 ELSE (p0 \div (d \div 2)) % 2
        stick == s > 1 /\ p0 % (d \div 2) # 0
    IN  RoundFloat(x.e + s,
                   t2 \div d,
                   p1 \div d + (t2 % d) * u,
                   p0 \div d + (p1 % d) * u,
                   guard, stick)

\* x > y on floats
FGreater(x, y) ==
    \/ x.e > y.e
    \/ x.e = y.e /\ x.hi > y.hi
    \/ x.e = y.e /\ x.hi = y.hi /\ x.mid > y.mid
    \/ x.e = y.e /\ x.hi = y.hi /\ x.mid = y.mid /\ x.lo > y.lo

\* int(x): truncation of a positive float below 2^31
FloatToInt(x) ==
    IF x.e < 0 THEN 0
    ELSE IF x.e <= 16 THEN x.hi \div 2^(16 - x.e)
    ELSE x.hi * 2^(x.e - 16) + x.mid \div 2^(34 - x.e)

(***************************************************************************)
(* save_and_crop_image, lines 110-132: resize to fill, then center crop.   *)
(***************************************************************************)
\* lines 111-123: the size handed to img.resize
CoverFit(w, h, target_w, target_h) ==
    LET img_ratio    == FDiv(w, h)
        target_ratio == FDiv(target_w, target_h)
    IN  IF FGreater(img_ratio, target_ratio)
        THEN [new_width  |-> FloatToInt(FMulInt(w, FDiv(target_h, h))),
              new_height |-> target_h]
        ELSE [new_width  |-> target_w,
              new_height |-> FloatToInt(FMulInt(h, FDiv(target_w, w)))]

CropOffsetUnhalved(extent, target) == extent - target

\* lines 128-129: (new - target) // 2, Python's floor division
CropOffset(extent, target) == (extent - target) \div 2

\* lines 128-132: the box handed to img.crop
CropBox(new_width, new_height, target_w, target_h) ==
    LET left == CropOffset(new_width, target_w)
        top  == CropOffset(new_height, target_h)
    IN  [left |-> left, top |-> top,
         right |-> left + target_w, bottom |-> top + target_h]

MaxDim    == 12
MaxTarget == 3
DefaultW  == 450
DefaultH  == 350

SrcWidths  == 1..MaxDim \cup {450, 873, 900}
SrcHeights == 1..MaxDim \cup {350, 679}
TargetWs   == 1..MaxTarget \cup {DefaultW}
TargetHs   == 1..MaxTarget \cup {DefaultH}

NoBox == [state |-> "none"]

ImgIdle == img = [w |-> 0, h |-> 0, target_w |-> 0, target_h |-> 0] /\ box = NoBox

\* an opened image of some size and a requested target
OpenImage ==
    /\ box = NoBox
    /\ img.w = 0
    /\ \E w \in SrcWidths, h \in SrcHeights, tw \in TargetWs, th \in TargetHs :
          img' = [w |-> w, h |-> h, target_w |-> tw, target_h |-> th]
    /\ UNCHANGED <<box, httpVars, saveVars, concVars>>

\* lines 110-132 applied to the image in hand
ResizeAndCrop ==
    /\ img.w > 0
    /\ box = NoBox
    /\ LET fit == CoverFit(img.w, img.h, img.target_w, img.target_h)
           cb  == CropBox(fit.new_width, fit.new_height,
                          img.target_w, img.target_h)
       IN  box' = [state |-> "cropped",
                   new_width |-> fit.new_width, new_height |-> fit.new_height,
                   left |-> cb.left, top |-> cb.top,
                   right |-> cb.right, bottom |-> cb.bottom]
    /\ UNCHANGED <<img, httpVars, saveVars, concVars>>


ImgNext == OpenImage \/ ResizeAndCrop

(***************************************************************************)
(* Text.  A Python str is the sequence of its characters.                  *)
(***************************************************************************)
Whitespace == {" "}

RECURSIVE LStrip(_, _)
LStrip(s, cs) ==
    IF s # <<>> /\ s[1] \in cs THEN LStrip(Tail(s), cs) ELSE s

RECURSIVE RStrip(_, _)
RStrip(s, cs) ==
    IF s # <<>> /\ s[Len(s)] \in cs
    THEN RStrip(SubSeq(s, 1, Len(s) - 1), cs) ELSE s

NoStrip(s) == s
\* str.strip(): leading and trailing whitespace removed
strip(s) == RStrip(LStrip(s, Whitespace), Whitespace)

Upper == {"G", "I", "F", "P", "N", "J", "E"}
\* str.lower() on one character
LowerChar(c) ==
    CASE c = "G" -> "g" [] c = "I" -> "i" [] c = "F" -> "f" [] c = "P" -> "p"
      [] c = "N" -> "n" [] c = "J" -> "j" [] c = "E" -> "e" [] OTHER -> c
lower(s) == [i \in 1..Len(s) |-> LowerChar(s[i])]

HasDot(s) == \E i \in 1..Len(s) : s[i] = "."
LastDot(s) == CHOOSE i \in 1..Len(s) :
                 s[i] = "." /\ \A j \in (i + 1)..Len(s) : s[j] # "."

(***************************************************************************)
(* werkzeug.utils.secure_filename, called at line 86 (POSIX: os.sep is     *)
(* "/", no altsep, no device-name rule).  The alphabet is ASCII, so the    *)
(* NFKD / ascii step leaves the name as it is.                             *)
(***************************************************************************)
SafeChars == {"a", "b", "e", "f", "g", "i", "j", "n", "p", "x",
              "0", "1", "_", ".", "-"} \cup Upper

ReplaceSep(s) == [i \in 1..Len(s) |-> IF s[i] = "/" THEN " " ELSE s[i]]

\* "_".join(s.split()): runs of whitespace become one "_", none at the ends
RECURSIVE JoinWords(_)
JoinWords(s) ==
    LET t == LStrip(s, Whitespace)
    IN  IF t = <<>> THEN <<>>
        ELSE IF s[1] \in Whitespace
             THEN <<"_">> \o JoinWords(t)
             ELSE <<s[1]>> \o JoinWords(Tail(s))
SplitJoin(s) == JoinWords(strip(s))

secure_filename(filename) ==
    LET joined == SplitJoin(ReplaceSep(filename))
        ascii  == SelectSeq(joined, LAMBDA c : c \in SafeChars)
    IN  RStrip(LStrip(ascii, {".", "_"}), {".", "_"})

(***************************************************************************)
(* Image utilities, lines 16 and 72-154.                                   *)
(***************************************************************************)
ALLOWED_EXTENSIONS ==
    {<<"p", "n", "g">>, <<"j", "p", "g">>, <<"j", "p", "e", "g">>,
     <<"g", "i", "f">>}

\* filename.rsplit('.', 1)[1]
AfterLastDot(s) == SubSeq(s, LastDot(s) + 1, Len(s))

\* lines 72-73
allowed_file(filename) ==
    HasDot(filename) /\ lower(AfterLastDot(filename)) \in ALLOWED_EXTENSIONS

\* os.path.splitext (line 91): the extension starts at the last dot, unless
\* only dots precede it
splitext(filename) ==
    IF HasDot(filename)
       /\ \E j \in 1..(LastDot(filename) - 1) : filename[j] # "."
    THEN [name |-> SubSeq(filename, 1, LastDot(filename) - 1),
          ext  |-> SubSeq(filename, LastDot(filename), Len(filename))]
    ELSE [name |-> filename, ext |-> <<>>]

\* a name in the upload directory, "{base}_{hex}{ext}" (lines 95 and 99); the
\* hex part is the 32 digits of a uuid4, written as the number of the draw
StoredName(base, hex, ext) == [base |-> base, hex |-> hex, ext |-> ext]
\* None / SQL NULL
None == StoredName(<<>>, 0, <<>>)

Uuid4Stuck(n) == 1
\* uuid4().hex after n earlier draws: a value never drawn before
Uuid4(n) == n + 1

\* what the environment may do to one call: which step of lines 103-135
\* raises (and whether the interrupted write left a file behind)
Faults == {"none", "save", "save_partial", "decode", "process", "encode",
           "encode_partial"}

\* file_storage: the uploaded part, absent or with a client-supplied
\* filename and a content that is an image or is not
NoUpload == [present |-> FALSE, filename |-> <<>>, content |-> "none"]

GuardedAfterSave == Faults \ {"save", "save_partial"}
GuardedOnlyDecode == {"decode"}
\* lines 102-137: the steps inside the try block, whose exceptions the
\* "except Exception" clause catches
Guarded == Faults

\* lines 75-154.  fs is the directory before the call and n the number of
\* uuids drawn; the result carries the returned name, the directory after
\* the call, the temp name used, and whether an exception left the call.
save_and_crop_image(file_storage, fs, n, fault, rmOk) ==
    IF ~file_storage.present \/ file_storage.filename = <<>>
    THEN [ret |-> None, files |-> fs, uuids |-> n, tmp |-> None,
          raised |-> FALSE, wrote |-> FALSE]
    ELSE
    LET filename == secure_filename(file_storage.filename)
    IN  IF ~allowed_file(filename)
        THEN [ret |-> None, files |-> fs, uuids |-> n, tmp |-> None,
              raised |-> FALSE, wrote |-> FALSE]
        ELSE
        LET sp          == splitext(filename)
            unique_name == StoredName(sp.name, Uuid4(n), <<".", "j", "p", "g">>)
            tmp_name    == StoredName(sp.name, Uuid4(n + 1), sp.ext)
            \* line 103: file_storage.save(tmp_path)
            saveRaises  == fault \in {"save", "save_partial"}
            fs1         == IF fault = "save" THEN fs ELSE fs \cup {tmp_name}
            \* line 106-108: Image.open, convert
            openRaises  == fault = "decode" \/ file_storage.content # "image"
            \* lines 111-132: resize, crop
            procRaises  == fault = "process"
            \* line 135: img.save(final_path)
            encRaises   == fault \in {"encode", "encode_partial"}
            reached135  == ~saveRaises /\ ~openRaises /\ ~procRaises
            fs2         == IF reached135 /\ fault # "encode"
                           THEN fs1 \cup {unique_name} ELSE fs1
            hit         == IF saveRaises THEN fault
                           ELSE IF openRaises THEN "decode"
                           ELSE IF procRaises \/ encRaises THEN fault
                           ELSE "none"
            caught      == hit # "none" /\ hit \in Guarded
            escaped     == hit # "none" /\ hit \notin Guarded
            \* lines 140-152: os.path.exists, os.remove, errors swallowed
            fs3         == IF tmp_name \in fs2 /\ rmOk /\ ~escaped
                           THEN fs2 \ {tmp_name} ELSE fs2
        IN  [ret    |-> IF hit # "none" THEN None ELSE unique_name,
             files  |-> fs3,
             uuids  |-> n + 2,
             tmp    |-> tmp_name,
             raised |-> escaped,
             wrote  |-> tmp_name \in fs1]

\* a fault choice that the call can tell apart from the others
Effective(image, fault, rmOk) ==
    LET reaches == image.present /\ image.filename # <<>>
                   /\ allowed_file(secure_filename(image.filename))
    IN  /\ ~reaches => fault = "none" /\ rmOk
        /\ image.content # "image" => fault \in {"none", "save", "save_partial"}
        /\ fault = "save" => rmOk

(***************************************************************************)
(* SpecSave: one call of save_and_crop_image on any filename.              *)
(***************************************************************************)
MaxNameLen == 6
Alphabet   == {"G", "i", "f", ".", "/"}
Filenames  == UNION {[1..n -> Alphabet] : n \in 0..MaxNameLen}
Contents   == {"image", "garbage"}

NoCall == [state |-> "none", ret |-> None, before |-> {}, tmp |-> None,
           raised |-> FALSE, wrote |-> FALSE, fault |-> "none", rmOk |-> TRUE]

SaveIdle == upload = NoUpload /\ ret = NoCall

\* a file part arrives: any filename, any content
ReceiveUpload ==
    /\ ret = NoCall
    /\ ~upload.present
    /\ \E f \in Filenames, c \in Contents :
          upload' = [present |-> TRUE, filename |-> f, content |-> c]
    /\ UNCHANGED <<ret, httpVars, imgVars, concVars>>

\* save_and_crop_image(upload) runs to its end
CallSave ==
    /\ upload.present
    /\ ret = NoCall
    /\ \E fault \in Faults, rmOk \in BOOLEAN :
          LET r == save_and_crop_image(upload, files, uuids, fault, rmOk)
          IN  /\ Effective(upload, fault, rmOk)
              /\ ret' = [state |-> "returned", ret |-> r.ret, before |-> files,
                         tmp |-> r.tmp, raised |-> r.raised, wrote |-> r.wrote,
                         fault |-> fault, rmOk |-> rmOk]
              /\ files' = r.files
              /\ uuids' = r.uuids
    /\ UNCHANGED <<upload, projects, clients, contacts, subscriptions, seq,
                   flashed, req, imgVars, concVars>>

SaveNext == ReceiveUpload \/ CallSave

(***************************************************************************)
(* Spec: the HTTP surface, lines 157-319, one request at a time.  Each     *)
(* route is one action, the handler from its first line to its return on   *)
(* some request; req keeps that request and what the handler saw until     *)
(* the response leaves (Respond).                                          *)
(***************************************************************************)
\* rows inserted over a run, all four tables together, and upload attempts
MaxRows    == 2
MaxUploads == 2

\* the values a form field is posted with: missing or empty, whitespace
\* only, text with whitespace around it
FormTexts   == {<<>>, <<" ">>, <<" ", "a", " ">>}
\* no file part, an image, a file that is no image, a name outside the list
Uploads     == {NoUpload,
                [present |-> TRUE, filename |-> <<"i", ".", "G", "i", "f">>,
                 content |-> "image"],
                [present |-> TRUE, filename |-> <<"i", ".", "G", "i", "f">>,
                 content |-> "garbage"],
                [present |-> TRUE, filename |-> <<"i", ".", "f">>,
                 content |-> "image"]}
\* what datetime.utcnow().isoformat() may read
Times       == {1}

Flash(message, category) == [message |-> message, category |-> category]

\* no request in hand
NoReq == [op |-> "none", method |-> "GET", status |-> 0, id |-> 0, now |-> 0,
          name |-> <<>>, designation |-> <<>>, description |-> <<>>,
          full_name |-> <<>>, email |-> <<>>, mobile |-> <<>>, city |-> <<>>,
          image |-> NoUpload, fault |-> "none", rmOk |-> TRUE,
          filename |-> None, before |-> {}]

\* the exceptions os.remove raises here
RemoveErrors == {"FileNotFoundError", "PermissionError"}

ExceptOnlyMissing(exc) == exc = "FileNotFoundError"
ExceptOnlyDenied(exc) == exc = "PermissionError"
\* lines 250 and 297: "except Exception" around os.remove
ExceptCaught(exc) == exc \in RemoveErrors

HttpInit ==
    /\ projects = {} /\ clients = {} /\ contacts = {} /\ subscriptions = {}
    /\ seq = [projects |-> 0, clients |-> 0, contacts |-> 0,
              subscriptions |-> 0]
    /\ files = {}
    /\ uuids = 0
    /\ flashed = <<>>
    /\ req = NoReq

\* ids handed out so far, all tables together
Inserted == seq.projects + seq.clients + seq.contacts + seq.subscriptions

GetRoutes == {"index", "admin_dashboard", "admin_projects", "admin_clients",
              "admin_contacts", "admin_subscriptions"}

\* the response leaves with the flashed messages in its session cookie
Respond ==
    /\ req # NoReq
    /\ req' = NoReq
    /\ flashed' = <<>>
    /\ UNCHANGED <<projects, clients, contacts, subscriptions, seq, files,
                   uuids, imgVars, saveVars, concVars>>

\* lines 157-163, 200-210, 306-319 and the GET side of lines 213-238 and
\* 259-285: the pages only read
view ==
    /\ req = NoReq
    /\ \E route \in GetRoutes :
          req' = [NoReq EXCEPT !.op = route, !.status = 200, !.before = files]
    /\ UNCHANGED <<projects, clients, contacts, subscriptions, seq, files,
                   uuids, flashed, imgVars, saveVars, concVars>>

\* lines 165-184
contact_submit ==
    /\ req = NoReq
    /\ \E f1 \in FormTexts, f2 \in FormTexts, f3 \in FormTexts,
          f4 \in FormTexts, now \in Times :
      LET full_name == strip(f1)
          email     == strip(f2)
          mobile    == strip(f3)
          city      == strip(f4)
      IN  /\ req' = [NoReq EXCEPT !.op = "contact_submit", !.method = "POST",
                        !.full_name = f1, !.email = f2, !.mobile = f3,
                        !.city = f4, !.status = 302, !.now = now,
                        !.before = files]
          /\ IF full_name = <<>> \/ email = <<>> \/ mobile = <<>> \/ city = <<>>
             THEN /\ flashed' = <<Flash("Please fill all contact form fields.",
                                        "error")>>
                  /\ UNCHANGED <<contacts, seq>>
             ELSE /\ Inserted < MaxRows
                  /\ contacts' = contacts \cup
                        {[id |-> seq.contacts + 1, full_name |-> full_name,
                          email |-> email, mobile |-> mobile, city |-> city,
                          created_at |-> now]}
                  /\ seq' = [seq EXCEPT !.contacts = @ + 1]
                  /\ flashed' = <<Flash(
                        "Thank you! Your contact details have been submitted.",
                        "success")>>
    /\ UNCHANGED <<projects, clients, subscriptions, files, uuids,
                   imgVars, saveVars, concVars>>

\* lines 186-197
subscribe ==
    /\ req = NoReq
    /\ \E f \in FormTexts, now \in Times :
      LET email == strip(f)
      IN  /\ req' = [NoReq EXCEPT !.op = "subscribe", !.method = "POST",
                        !.email = f, !.status = 302, !.now = now,
                        !.before = files]
          /\ IF email = <<>>
             THEN /\ flashed' = <<Flash("Please enter an email address.",
                                        "error")>>
                  /\ UNCHANGED <<subscriptions, seq>>
             ELSE /\ Inserted < MaxRows
                  /\ subscriptions' = subscriptions \cup
                        {[id |-> seq.subscriptions + 1, email |-> email,
                          created_at |-> now]}
                  /\ seq' = [seq EXCEPT !.subscriptions = @ + 1]
                  /\ flashed' = <<Flash("Subscribed successfully!", "success")>>
    /\ UNCHANGED <<projects, clients, contacts, files, uuids,
                   imgVars, saveVars, concVars>>

\* lines 219-224 and 266-271: the image part of an admin form
StoreImage(image, fault, rmOk) ==
    IF image.present /\ image.filename # <<>>
    THEN save_and_crop_image(image, files, uuids, fault, rmOk)
    ELSE [ret |-> None, files |-> files, uuids |-> uuids, tmp |-> None,
          raised |-> FALSE, wrote |-> FALSE]

\* lines 213-238, POST
admin_projects ==
    /\ req = NoReq
    /\ \E image \in Uploads, fault \in Faults, rmOk \in BOOLEAN,
          f1 \in FormTexts, f2 \in FormTexts :
      LET name        == strip(f1)
          description == strip(f2)
          r           == StoreImage(image, fault, rmOk)
      IN  /\ Effective(image, fault, rmOk)
          /\ r.uuids <= 2 * MaxUploads
          /\ files' = r.files
          /\ uuids' = r.uuids
          /\ req' = [NoReq EXCEPT !.op = "admin_projects", !.method = "POST",
                        !.name = f1, !.description = f2, !.image = image,
                        !.status = IF r.raised THEN 500 ELSE 200,
                        !.fault = fault, !.rmOk = rmOk,
                        !.filename = r.ret, !.before = files]
          /\ IF r.raised
             THEN /\ flashed' = <<>>
                  /\ UNCHANGED <<projects, seq>>
             ELSE IF name = <<>> \/ description = <<>>
             THEN /\ flashed' = <<Flash(
                        "Please provide project name and description.",
                        "error")>>
                  /\ UNCHANGED <<projects, seq>>
             ELSE /\ Inserted < MaxRows
                  /\ projects' = projects \cup
                        {[id |-> seq.projects + 1, name |-> name,
                          description |-> description,
                          image_filename |-> r.ret]}
                  /\ seq' = [seq EXCEPT !.projects = @ + 1]
                  /\ flashed' = <<Flash("Project added!", "success")>>
    /\ UNCHANGED <<clients, contacts, subscriptions,
                   imgVars, saveVars, concVars>>

\* lines 259-285, POST
admin_clients ==
    /\ req = NoReq
    /\ \E image \in Uploads, fault \in Faults, rmOk \in BOOLEAN,
          f1 \in FormTexts, f2 \in FormTexts, f3 \in FormTexts :
      LET name        == strip(f1)
          designation == strip(f2)
          description == strip(f3)
          r           == StoreImage(image, fault, rmOk)
      IN  /\ Effective(image, fault, rmOk)
          /\ r.uuids <= 2 * MaxUploads
          /\ files' = r.files
          /\ uuids' = r.uuids
          /\ req' = [NoReq EXCEPT !.op = "admin_clients", !.method = "POST",
                        !.name = f1, !.designation = f2, !.description = f3,
                        !.image = image,
                        !.status = IF r.raised THEN 500 ELSE 200,
                        !.fault = fault, !.rmOk = rmOk,
                        !.filename = r.ret, !.before = files]
          /\ IF r.raised
             THEN /\ flashed' = <<>>
                  /\ UNCHANGED <<clients, seq>>
             ELSE IF name = <<>> \/ designation = <<>> \/ description = <<>>
             THEN /\ flashed' = <<Flash(
                        "Please provide client name, designation and description.",
                        "error")>>
                  /\ UNCHANGED <<clients, seq>>
             ELSE /\ Inserted < MaxRows
                  /\ clients' = clients \cup
                        {[id |-> seq.clients + 1, name |-> name,
                          designation |-> designation,
                          description |-> description,
                          image_filename |-> r.ret]}
                  /\ seq' = [seq EXCEPT !.clients = @ + 1]
                  /\ flashed' = <<Flash("Client added!", "success")>>
    /\ UNCHANGED <<projects, contacts, subscriptions,
                   imgVars, saveVars, concVars>>

\* SELECT image_filename FROM <table> WHERE id = ?  (lines 243 and 290)
RowsWithId(table, id) == {row \in table : row.id = id}

\* lines 245-251 and 292-298: the file part of a delete, given the selected
\* row; exc is what os.remove does to a file that is there
RemoveImage(row, fs, exc) ==
    IF row.image_filename # None /\ row.image_filename \in fs
    THEN IF exc = "none"
         THEN [files |-> fs \ {row.image_filename}, raised |-> FALSE]
         ELSE [files |-> fs, raised |-> ~ExceptCaught(exc)]
    ELSE [files |-> fs, raised |-> FALSE]

\* os.remove is reached and may fail only when the row names a present file
RemoveReached(rows, fs) ==
    \E row \in rows : row.image_filename # None /\ row.image_filename \in fs

\* lines 240-256
delete_project ==
    /\ req = NoReq
    /\ \E pid \in 1..(MaxRows + 1), exc \in {"none", "PermissionError"} :
      LET rows == RowsWithId(projects, pid)
          rq   == [NoReq EXCEPT !.op = "delete_project", !.method = "POST", !.id = pid]
      IN  /\ exc # "none" => RemoveReached(rows, files)
          /\ IF rows = {}
             THEN /\ req' = [rq EXCEPT !.status = 302, !.before = files]
                  /\ UNCHANGED <<projects, files, flashed>>
             ELSE \E row \in rows :
                    LET rm == RemoveImage(row, files, exc)
                    IN  /\ files' = rm.files
                        /\ req' = [rq EXCEPT
                                     !.status = IF rm.raised THEN 500 ELSE 302,
                                     !.fault = exc, !.before = files,
                                     !.filename = row.image_filename]
                        /\ IF rm.raised
                           THEN UNCHANGED <<projects, flashed>>
                           ELSE /\ projects' = projects \ rows
                                /\ flashed' = <<Flash("Project deleted.",
                                                      "success")>>
    /\ UNCHANGED <<clients, contacts, subscriptions, seq, uuids,
                   imgVars, saveVars, concVars>>

\* lines 287-303
delete_client ==
    /\ req = NoReq
    /\ \E cid \in 1..(MaxRows + 1), exc \in {"none", "PermissionError"} :
      LET rows == RowsWithId(clients, cid)
          rq   == [NoReq EXCEPT !.op = "delete_client", !.method = "POST", !.id = cid]
      IN  /\ exc # "none" => RemoveReached(rows, files)
          /\ IF rows = {}
             THEN /\ req' = [rq EXCEPT !.status = 302, !.before = files]
                  /\ UNCHANGED <<clients, files, flashed>>
             ELSE \E row \in rows :
                    LET rm == RemoveImage(row, files, exc)
                    IN  /\ files' = rm.files
                        /\ req' = [rq EXCEPT
                                     !.status = IF rm.raised THEN 500 ELSE 302,
                                     !.fault = exc, !.before = files,
                                     !.filename = row.image_filename]
                        /\ IF rm.raised
                           THEN UNCHANGED <<clients, flashed>>
                           ELSE /\ clients' = clients \ rows
                                /\ flashed' = <<Flash("Client deleted.",
                                                      "success")>>
    /\ UNCHANGED <<projects, contacts, subscriptions, seq, uuids,
                   imgVars, saveVars, concVars>>

(***************************************************************************)
(* SpecConc: two requests to delete the same id (lines 240-256 or          *)
(* 287-303), each on its own connection, interleaved statement by          *)
(* statement.  DELETE and commit are one step: the other connection sees   *)
(* the row until the commit.                                               *)
(***************************************************************************)
MaxConcRows == 2
Deleters    == {1, 2}

JpgExt == <<".", "j", "p", "g">>
Orphan == StoredName(<<"i">>, 4 * MaxConcRows + 1, JpgExt)

ConcIdle ==
    /\ dpc = [p \in Deleters |-> "idle"]
    /\ drow = [p \in Deleters |-> None]
    /\ dlog = [projects |-> {}, clients |-> {}, files |-> {}, events |-> <<>>]

\* a database and directory the sequential requests can have produced (ids
\* handed out in order, some rows deleted again, every named image present,
\* possibly an unreferenced file), and two delete requests for one id of one
\* table; the other table holds one row with an image
ConcRow(id, hex, withImage) ==
    [id |-> id, name |-> <<"a">>, description |-> <<"a">>,
     image_filename |-> IF withImage THEN StoredName(<<"i">>, hex, JpgExt)
                        ELSE None]
ConcInit ==
    /\ ImgIdle /\ SaveIdle
    /\ contacts = {} /\ subscriptions = {}
    /\ flashed = <<>>
    /\ \E op \in {"delete_project", "delete_client"}, id \in 1..MaxConcRows :
       \E ids \in SUBSET (1..MaxConcRows) :
       \E image \in [ids -> BOOLEAN], orphans \in SUBSET {Orphan} :
          LET target == {ConcRow(i, 4 * i - 3, image[i]) : i \in ids}
              other  == {ConcRow(1, 4 * MaxConcRows - 1, TRUE)}
          IN  /\ req = [NoReq EXCEPT !.op = op, !.method = "POST", !.id = id]
              /\ projects = IF op = "delete_project" THEN target ELSE other
              /\ clients = IF op = "delete_project" THEN other ELSE target
              /\ files = ({row.image_filename : row \in target \cup other}
                             \ {None}) \cup orphans
    /\ seq = [projects |-> MaxConcRows, clients |-> MaxConcRows,
              contacts |-> 0, subscriptions |-> 0]
    /\ uuids = 4 * MaxConcRows
    /\ dpc = [p \in Deleters |-> "select"]
    /\ drow = [p \in Deleters |-> None]
    /\ dlog = [projects |-> projects, clients |-> clients, files |-> files,
               events |-> <<>>]

Table == IF req.op = "delete_project" THEN projects ELSE clients

Event(p, at, what) == [p |-> p, at |-> at, what |-> what]
Log(p, at, what) ==
    dlog' = [dlog EXCEPT !.events = Append(@, Event(p, at, what))]

\* lines 243-244 / 290-291: the SELECT and "if row"
d_select(p) ==
    /\ dpc[p] = "select"
    /\ LET rows == RowsWithId(Table, req.id)
       IN  IF rows = {}
           THEN /\ dpc' = [dpc EXCEPT ![p] = "done"]
                /\ Log(p, "select", "no row")
                /\ UNCHANGED drow
           ELSE \E row \in rows :
                /\ drow' = [drow EXCEPT ![p] = row.image_filename]
                /\ dpc' = [dpc EXCEPT ![p] =
                             IF row.image_filename # None THEN "exists"
                             ELSE "delete"]
                /\ Log(p, "select", "row")
    /\ UNCHANGED <<projects, clients, contacts, subscriptions, seq, files,
                   uuids, flashed, req, imgVars, saveVars>>

\* lines 246-247 / 293-294: os.path.exists(path)
d_exists(p) ==
    /\ dpc[p] = "exists"
    /\ dpc' = [dpc EXCEPT ![p] = IF drow[p] \in files THEN "remove"
                                 ELSE "delete"]
    /\ Log(p, "exists", IF drow[p] \in files THEN "yes" ELSE "no")
    /\ UNCHANGED <<projects, clients, contacts, subscriptions, seq, files,
                   uuids, flashed, req, drow, imgVars, saveVars>>

\* lines 248-251 / 295-298: os.remove(path) inside try / except Exception
d_remove(p) ==
    /\ dpc[p] = "remove"
    /\ \E exc \in {"none"} \cup RemoveErrors :
          /\ exc = "FileNotFoundError" <=> drow[p] \notin files
          /\ files' = IF exc = "none" THEN files \ {drow[p]} ELSE files
          /\ dpc' = [dpc EXCEPT ![p] =
                       IF exc = "none" \/ ExceptCaught(exc) THEN "delete"
                       ELSE "crashed"]
          /\ Log(p, "remove", exc)
    /\ UNCHANGED <<projects, clients, contacts, subscriptions, seq,
                   uuids, flashed, req, drow, imgVars, saveVars>>

\* lines 252-254 / 299-301: DELETE, commit, flash
d_delete(p) ==
    /\ dpc[p] = "delete"
    /\ LET rows == RowsWithId(Table, req.id)
       IN  /\ IF req.op = "delete_project"
              THEN projects' = projects \ rows /\ UNCHANGED clients
              ELSE clients' = clients \ rows /\ UNCHANGED projects
           /\ Log(p, "delete", IF rows = {} THEN "0 rows" ELSE "1 row")
    /\ dpc' = [dpc EXCEPT ![p] = "done"]
    /\ UNCHANGED <<contacts, subscriptions, seq, files, uuids, flashed, req,
                   drow, imgVars, saveVars>>

ConcNext ==
    \E p \in Deleters : d_select(p) \/ d_exists(p) \/ d_remove(p) \/ d_delete(p)

Init ==
    /\ HttpInit
    /\ ImgIdle
    /\ SaveIdle
    /\ ConcIdle

Next ==
    \/ view
    \/ contact_submit
    \/ subscribe
    \/ admin_projects
    \/ admin_clients
    \/ delete_project
    \/ delete_client
    \/ Respond

Spec == Init /\ [][Next]_vars

SpecImg == Init /\ [][ImgNext]_vars

SpecSave == Init /\ [][SaveNext]_vars

SpecConc == ConcInit /\ [][ConcNext]_vars

(***************************************************************************)
(* Properties of the cover fit and the crop (SpecImg).                     *)
(***************************************************************************)
Cropped == box.state = "cropped"

\* C3: for every source and target of at least 1x1 the scaled size covers
\* the target (new_width >= target_w, new_height >= target_h, one of them
\* equal), so the crop box lies inside the scaled image and the output is
\* exactly target_w by target_h.
C3_CoverFitCoversTarget ==
    Cropped =>
        /\ box.new_width >= img.target_w
        /\ box.new_height >= img.target_h
        /\ box.new_width = img.target_w \/ box.new_height = img.target_h
        /\ 0 <= box.left /\ box.right <= box.new_width
        /\ 0 <= box.top /\ box.bottom <= box.new_height
        /\ box.right - box.left = img.target_w
        /\ box.bottom - box.top = img.target_h

\* C10: the crop is the center crop: left and top are the floors of half the
\* excess, the box is target_w by target_h from there, the margins cut on
\* opposite sides differ by at most one pixel; 900x350 to 450x350 keeps its
\* size and is cropped from left = 225, top = 0.
C10_CenterCrop ==
    Cropped =>
        LET dw == box.new_width - img.target_w
            dh == box.new_height - img.target_h
        IN  /\ 2 * box.left <= dw /\ dw <= 2 * box.left + 1
            /\ 2 * box.top <= dh /\ dh <= 2 * box.top + 1
            /\ box.right = box.left + img.target_w
            /\ box.bottom = box.top + img.target_h
            /\ (box.new_width - box.right) - box.left \in {0, 1}
            /\ (box.new_height - box.bottom) - box.top \in {0, 1}
            /\ (img.w = 900 /\ img.h = 350 /\ img.target_w = DefaultW
                /\ img.target_h = DefaultH)
               => /\ box.new_width = 900 /\ box.new_height = 350
                  /\ box.left = 225 /\ box.top = 0

C10_Witness ==
    /\ Cropped
    /\ img.w = 900 /\ img.h = 350
    /\ img.target_w = DefaultW /\ img.target_h = DefaultH
    /\ box.left = 225 /\ box.right = 675

(***************************************************************************)
(* Properties of one call of save_and_crop_image (SpecSave).               *)
(***************************************************************************)
Returned == ret.state = "returned"

\* C5: an upload whose filename has no "." or whose part after the last
\* ".", lower-cased, is outside png, jpg, jpeg, gif is answered None and
\* leaves no new file in the upload directory.
C5_BadExtensionRejected ==
    (Returned
     /\ (~HasDot(upload.filename)
         \/ lower(AfterLastDot(upload.filename)) \notin ALLOWED_EXTENSIONS))
    => ret.ret = None /\ files = ret.before

\* C6 as claimed: the call never raises, returns a stored name or None, and
\* on return the temp file it wrote is gone, on every path.
C6_TempNeverSurvives ==
    Returned =>
        /\ ~ret.raised
        /\ ret.ret # None => ret.ret \in files
        /\ ret.tmp \notin files

\* C6, amended: the call never raises and returns a stored name (of a file
\* then present) or None; on return the temp file it wrote is gone unless
\* os.remove failed on it, which is swallowed.
C6_TempRemovedUnlessRemoveFails ==
    Returned =>
        /\ ~ret.raised
        /\ ret.ret # None => ret.ret \in files /\ ret.fault = "none"
        /\ ret.fault # "none" => ret.ret = None
        /\ ret.rmOk => ret.tmp \notin files
        /\ ret.tmp \in files => ret.wrote /\ ~ret.rmOk

C6_Witness ==
    /\ Returned
    /\ ret.wrote /\ ret.fault = "encode" /\ ret.rmOk
    /\ ret.ret = None /\ ret.tmp \notin files

(***************************************************************************)
(* Properties of the HTTP surface (Spec).  A step with req = NoReq and     *)
(* req' the request of a route is that route's handler running.            *)
(***************************************************************************)
Blank(t) == \A i \in 1..Len(t) : t[i] \in Whitespace

\* some required field of the posted form is missing, empty or whitespace
BlankForm(r) ==
    \/ r.op = "contact_submit"
       /\ (Blank(r.full_name) \/ Blank(r.email) \/ Blank(r.mobile)
           \/ Blank(r.city))
    \/ r.op = "subscribe" /\ Blank(r.email)
    \/ r.op = "admin_projects" /\ r.method = "POST"
       /\ (Blank(r.name) \/ Blank(r.description))
    \/ r.op = "admin_clients" /\ r.method = "POST"
       /\ (Blank(r.name) \/ Blank(r.designation) \/ Blank(r.description))

CompleteAdminForm(r) ==
    \/ r.op = "admin_projects" /\ r.method = "POST"
       /\ ~Blank(r.name) /\ ~Blank(r.description)
    \/ r.op = "admin_clients" /\ r.method = "POST"
       /\ ~Blank(r.name) /\ ~Blank(r.designation) /\ ~Blank(r.description)

IsError(fl)   == Len(fl) = 1 /\ fl[1].category = "error"
IsSuccess(fl) == Len(fl) = 1 /\ fl[1].category = "success"

\* C1: a form submission with a required field missing, empty or
\* whitespace-only changes no persisted state (no row in any table, the
\* same files in the upload directory, even with a valid image attached)
\* and sets an error message.
C1_BlankFormChangesNothing ==
    [][(req = NoReq /\ BlankForm(req'))
       => /\ UNCHANGED <<projects, clients, contacts, subscriptions>>
          /\ files' = files
          /\ IsError(flashed')]_vars

WithImage == {row \in projects \cup clients : row.image_filename # None}

\* C2: every project or client row with an image_filename names a file
\* that is in the upload directory, and no two rows (of either table) name
\* the same file, whatever the uploads were called.
C2_ImagesPresentAndExclusive ==
    /\ \A row \in WithImage : row.image_filename \in files
    /\ \A r1 \in WithImage, r2 \in WithImage :
          r1 # r2 => r1.image_filename # r2.image_filename

\* two rows made from uploads of the same original name, after a delete of
\* an earlier row with an image
C2_Witness ==
    /\ \E r1 \in projects, r2 \in clients :
          /\ r1.image_filename # None /\ r2.image_filename # None
          /\ r1.image_filename.base = r2.image_filename.base
    /\ req.op = "admin_clients" /\ req.filename # None

\* C4: a delete of an existing record removes its row and completes
\* normally: with an image whose file exists the file goes too, with no
\* image no file is touched, and when os.remove fails the row still goes;
\* a delete of an id without a row changes no table and no file.
C4_DeleteRemovesRow ==
    [][(req = NoReq /\ req'.op \in {"delete_project", "delete_client"})
       => LET table == IF req'.op = "delete_project" THEN projects
                       ELSE clients
              after == IF req'.op = "delete_project" THEN projects'
                       ELSE clients'
              rows  == {row \in table : row.id = req'.id}
          IN  /\ UNCHANGED <<contacts, subscriptions>>
              /\ req'.op = "delete_project" => clients' = clients
              /\ req'.op = "delete_client" => projects' = projects
              /\ req'.status = 302
              /\ after = table \ rows
              /\ rows = {} => files' = files
              /\ \A row \in rows :
                    /\ row.image_filename = None => files' = files
                    /\ (row.image_filename # None /\ req'.fault = "none")
                       => files' = files \ {row.image_filename}
                    /\ req'.fault # "none" => files' = files]_vars

\* a delete whose os.remove failed: the row is gone, the file is not
C4_Witness ==
    /\ req.op = "delete_project" /\ req.status = 302
    /\ req.fault = "PermissionError"
    /\ req.filename \in files
    /\ \A row \in projects : row.id # req.id
    /\ IsSuccess(flashed)

\* C7: an admin form with all text fields non-blank and an attached image
\* that fails processing still inserts exactly one record, with
\* image_filename null, and reports success.
C7_ImageFailureStillInserts ==
    [][(req = NoReq /\ CompleteAdminForm(req')
        /\ req'.image.present /\ req'.image.filename # <<>>
        /\ req'.filename = None)
       => LET table == IF req'.op = "admin_projects" THEN projects
                       ELSE clients
              after == IF req'.op = "admin_projects" THEN projects'
                       ELSE clients'
          IN  /\ req'.status = 200
              /\ IsSuccess(flashed')
              /\ table \subseteq after
              /\ Cardinality(after \ table) = 1
              /\ \A row \in after \ table : row.image_filename = None]_vars

C7_Witness ==
    /\ req.op = "admin_clients" /\ req.status = 200
    /\ req.image.present /\ req.image.content = "garbage"
    /\ req.filename = None
    /\ IsSuccess(flashed)
    /\ \E row \in clients : row.id = seq.clients /\ row.image_filename = None

CompleteContact(r) ==
    /\ r.op = "contact_submit"
    /\ ~Blank(r.full_name) /\ ~Blank(r.email) /\ ~Blank(r.mobile)
    /\ ~Blank(r.city)

OnlyGrow == contacts \subseteq contacts' /\ subscriptions \subseteq subscriptions'

\* C8 as claimed: a contact form with four non-blank fields inserts exactly
\* one row carrying those four values and a timestamp, duplicates included,
\* with a success message; no request removes or changes a contact or
\* subscription row.
C8_ContactStoredAsPosted ==
    [][/\ OnlyGrow
       /\ (req = NoReq /\ CompleteContact(req'))
          => /\ contacts' = contacts \cup
                   {[id |-> seq.contacts + 1, full_name |-> req'.full_name,
                     email |-> req'.email, mobile |-> req'.mobile,
                     city |-> req'.city, created_at |-> req'.now]}
             /\ Cardinality(contacts') = Cardinality(contacts) + 1
             /\ IsSuccess(flashed')]_vars

\* t is raw without the whitespace at its two ends
IsTrimOf(raw, t) ==
    /\ t # <<>> => t[1] \notin Whitespace /\ t[Len(t)] \notin Whitespace
    /\ \E i \in 0..Len(raw) :
          /\ i + Len(t) <= Len(raw)
          /\ SubSeq(raw, i + 1, i + Len(t)) = t
          /\ \A j \in 1..i : raw[j] \in Whitespace
          /\ \A j \in (i + Len(t) + 1)..Len(raw) : raw[j] \in Whitespace

\* C8, amended: the one row inserted carries the four values with the
\* whitespace at their ends removed, and a timestamp; the rest as claimed.
C8_ContactStoredTrimmed ==
    [][/\ OnlyGrow
       /\ (req = NoReq /\ CompleteContact(req'))
          => /\ Cardinality(contacts' \ contacts) = 1
             /\ \A row \in contacts' \ contacts :
                   /\ row.id = seq.contacts + 1
                   /\ \A old \in contacts : old.id # row.id
                   /\ IsTrimOf(req'.full_name, row.full_name)
                   /\ IsTrimOf(req'.email, row.email)
                   /\ IsTrimOf(req'.mobile, row.mobile)
                   /\ IsTrimOf(req'.city, row.city)
                   /\ row.created_at = req'.now
             /\ IsSuccess(flashed')]_vars

\* the same submission made twice: two rows that differ in their id only
C8_Witness ==
    /\ CompleteContact(req) /\ IsSuccess(flashed)
    /\ \E r1 \in contacts, r2 \in contacts :
          /\ r1.id # r2.id
          /\ r1.full_name = r2.full_name /\ r1.email = r2.email
          /\ r1.mobile = r2.mobile /\ r1.city = r2.city
          /\ r2.id = seq.contacts
          /\ IsTrimOf(req.full_name, r2.full_name)

(***************************************************************************)
(* Properties of two concurrent deletes of one id (SpecConc).              *)
(***************************************************************************)
BothEnded == \A p \in Deleters : dpc[p] \in {"done", "crashed"}

Table0      == IF req.op = "delete_project" THEN dlog.projects ELSE dlog.clients
Other       == IF req.op = "delete_project" THEN clients ELSE projects
Other0      == IF req.op = "delete_project" THEN dlog.clients ELSE dlog.projects
TargetRows0 == {row \in Table0 : row.id = req.id}
TargetFiles == {row.image_filename : row \in TargetRows0} \ {None}

Events == {dlog.events[i] : i \in 1..Len(dlog.events)}
Found(p) == Event(p, "select", "row") \in Events

\* the request selected only after the other one's DELETE was committed
SelectedAfterCommit(p) ==
    \E i \in 1..Len(dlog.events), j \in 1..Len(dlog.events) :
       /\ i < j
       /\ dlog.events[i].at = "delete" /\ dlog.events[i].p # p
       /\ dlog.events[j].at = "select" /\ dlog.events[j].p = p

\* C9 as claimed: no request ends in an unhandled error, only one of the
\* two finds something to remove (the second is a no-op), and at the end
\* the row and its image file are gone and nothing else has changed.
C9_SecondDeleteFindsNothing ==
    BothEnded =>
        /\ \A p \in Deleters : dpc[p] = "done"
        /\ ~(Found(1) /\ Found(2))
        /\ Table = Table0 \ TargetRows0
        /\ Other = Other0
        /\ files = dlog.files \ TargetFiles

\* C9, amended: no request ends in an unhandled error; a request that
\* selects after the other one's commit finds no row and does nothing more,
\* one that selected the row earlier goes on, but only one os.remove and
\* one DELETE take effect; at the end the row is gone, its image file is
\* gone unless os.remove failed on it with an error other than the file
\* being gone already, and nothing else has changed.
C9_ConcurrentDeletesConverge ==
    BothEnded =>
        /\ \A p \in Deleters : dpc[p] = "done"
        /\ \A p \in Deleters :
              SelectedAfterCommit(p) =>
                 {e \in Events : e.p = p} = {Event(p, "select", "no row")}
        /\ Cardinality({i \in 1..Len(dlog.events) :
              dlog.events[i].at = "remove"
              /\ dlog.events[i].what = "none"}) <= 1
        /\ Cardinality({i \in 1..Len(dlog.events) :
              dlog.events[i].at = "delete"
              /\ dlog.events[i].what = "1 row"}) <= 1
        /\ Table = Table0 \ TargetRows0
        /\ Other = Other0
        /\ dlog.files \ TargetFiles \subseteq files
        /\ files \subseteq dlog.files
        /\ \A f \in TargetFiles \cap files :
              \E e \in Events : e.at = "remove" /\ e.what = "PermissionError"

\* the race: both requests selected the row, one removed the file, the
\* other one's os.remove found it gone, and both ran their DELETE
C9_Witness ==
    /\ BothEnded
    /\ Found(1) /\ Found(2)
    /\ \E e \in Events : e.at = "remove" /\ e.what = "FileNotFoundError"
    /\ \E e \in Events : e.at = "delete" /\ e.what = "0 rows"
    /\ TargetFiles # {} /\ TargetFiles \cap files = {}
    /\ Table = Table0 \ TargetRows0

====
